---- MODULE Spec2Model ----
(***************************************************************************)
(* Enrichment-and-retrieval pipeline of the media archive backend:         *)
(*   - the image tagging worker (app/utils/background_worker.py) with the  *)
(*     batch tagging call (app/utils/tagging.py) and the image store       *)
(*     (app/repository/image_repository.py);                               *)
(*   - similarity search over audio embeddings (audio_repository.py,       *)
(*     image_repository.py, app/utils/embedding.py);                       *)
(*   - the chat agent's context cache (app/agent/agent.py).                *)
(***************************************************************************)
EXTENDS Integers, Sequences, FiniteSets, TLC

\* ------------------------------------------------------------------ bounds
MaxImages == 3       \* records in the store of the worker specification
MaxLarge == 12       \* records in the store of the large-store specification
MaxBad == 2          \* image files that cannot be loaded/decoded
MaxFaults == 2       \* environment faults injected along one behaviour
MaxAudio == 2        \* records in the audio table of the retrieval specification
MaxMedia == 2        \* image and video records of the retrieval specification
MaxCallers == 2      \* chat connections calling prepare_context
MaxCtxRecords == 2   \* images, and videos, in the store read by prepare_context
MaxQueries == 3      \* store-querying rebuilds counted per cache generation
MaxPending == 2      \* requests accepted and waiting for the event loop
MaxCreated == 3      \* audio records created in the audio-store specification
MaxCalls == 2        \* handlers that can be inside transcribe_audio_from_bytes

\* -------------------------------------------------------- program constants
BatchLimit == 10     \* get_untagged_images(limit=10)

\* Optional[T]: None, or Some(x) for a present value x
None == <<>>
Some(x) == <<x>>

VARIABLES
    images,           \* image table: id -> [tagged, tags, description]; id order = timestamp order
    badPaths,         \* ids whose file under images/ cannot be opened or decoded
    faults,           \* environment faults injected so far
    pc,               \* worker position: idle, analyzing, committing, sleeping
    batch,            \* untagged_images: records as fetched by this tick
    tagging_results,  \* value returned by get_image_tags_batch_as_parts in this tick
    idx,              \* 1-based position of the loop over batch_results
    tickOutcome,      \* how the current/last tick went
    tickTagCalls,     \* calls of get_image_tags_batch_as_parts made by this tick
    tickVisionCalls,  \* calls of client.models.generate_content made by this tick
    tickUpdates,      \* ids for which update_image was called in this tick
    tickFailed,       \* ids whose update_image raised in this tick
    audios,           \* audio table: id -> [embedding, transcription], in fetch order
    media,            \* image and video tables: id -> [kind, audio_id], id order = timestamp order
    found,            \* the last retrieval call: its arguments and what it returned
    context_cache,    \* ChatAgent.context_cache: None or the cached digest
    ctxStore,         \* what prepare_context reads: [images, videos] record counts
    callers,          \* per connection: position in prepare_context, its reads, its context
    storeQueries,     \* rebuilds that queried the store since the last cache clear
    returned,         \* digests returned by prepare_context since the last cache clear
    lastCall,         \* the last call of a utility function: its inputs and what it did
    cancelledAt,      \* where the worker was when task.cancel() reached it ("none": not cancelled)
    pending,          \* requests accepted by the server and waiting for the event loop
    stale,            \* connections whose store reads or context predate the last cache clear
    cacheStale,       \* the cached digest was built from reads started before the last cache clear
    lastResponse,     \* the last chat response: its connection, and whether its context was stale
    calls,            \* per handler: position in transcribe_audio_from_bytes, input, file name, result
    files,            \* names of the staged audio files that exist in the working directory
    userEdited,       \* ids of records a user has edited since the last fetch
    deletedIds        \* ids of records a user has deleted since the last fetch

workerVars == <<images, badPaths, faults, pc, batch, tagging_results, idx,
                tickOutcome, tickTagCalls, tickVisionCalls, tickUpdates, tickFailed>>

findVars == <<audios, media, found>>

ctxVars == <<context_cache, ctxStore, callers, storeQueries, returned,
             stale, cacheStale, lastResponse>>

utilVars == <<lastCall>>

loopVars == <<cancelledAt, pending>>

stageVars == <<calls, files>>

editVars == <<userEdited, deletedIds>>

vars == <<workerVars, findVars, ctxVars, utilVars, loopVars, stageVars, editVars>>

\* ------------------------------------------------------------ sequences
Take(s, n) == IF n >= Len(s) THEN s ELSE SubSeq(s, 1, n)

Max(S) == CHOOSE x \in S : \A y \in S : y <= x

\* ORDER BY timestamp DESC over a set of ids (an id is its creation rank)
OrderDesc(S) ==
    [k \in 1..Cardinality(S) |-> CHOOSE x \in S : Cardinality({y \in S : y > x}) = k - 1]

\* ------------------------------------------------------------ image store
NewImage == [tagged |-> FALSE, tags |-> 0, description |-> 0, rest |-> 0]

\* tags/description values: 0 = value at ingestion, k > 0 = computed from the
\* image of record k, -1 = the worker's default for a missing field ([] / "");
\* rest stands for the other columns (path, timestamp, audio_id, latitude,
\* longitude, embeddings): 0 = as ingested

get_untagged_images_unfiltered(store, limit) ==
    Take([k \in 1..Len(OrderDesc(DOMAIN store)) |->
             [id |-> OrderDesc(DOMAIN store)[k],
              tagged |-> store[OrderDesc(DOMAIN store)[k]].tagged,
              tags |-> store[OrderDesc(DOMAIN store)[k]].tags,
              description |-> store[OrderDesc(DOMAIN store)[k]].description]], limit)

get_untagged_images(store, limit) ==
    LET ids == OrderDesc({i \in DOMAIN store : store[i].tagged = FALSE})
    IN  Take([k \in 1..Len(ids) |->
                 [id |-> ids[k], tagged |-> store[ids[k]].tagged,
                  tags |-> store[ids[k]].tags,
                  description |-> store[ids[k]].description]], limit)

\* update(ImageModel).where(id == image_id).values(**update_data): a None
\* argument leaves its column alone; no row matches when the id is absent;
\* embeddings, audio_id, latitude and longitude are passed by no caller modelled
update_image_without_where(store, image_id, description, tags, tagged) ==
    [i \in DOMAIN store |->
        [tagged |-> IF tagged # None THEN tagged[1] ELSE store[i].tagged,
         tags |-> IF tags # None THEN tags[1] ELSE store[i].tags,
         description |-> IF description # None THEN description[1]
                         ELSE store[i].description,
         rest |-> store[i].rest]]

update_image(store, image_id, description, tags, tagged) ==
    [i \in DOMAIN store |->
        IF i # image_id THEN store[i]
        ELSE [tagged |-> IF tagged # None THEN tagged[1] ELSE store[i].tagged,
              tags |-> IF tags # None THEN tags[1] ELSE store[i].tags,
              description |-> IF description # None THEN description[1]
                              ELSE store[i].description,
              rest |-> store[i].rest]]

\* ------------------------------------------------------------ tagging.py
\* the images for which a Part could be built (file opened and decoded)
ValidImages(image_paths, bad) == SelectSeq(image_paths, LAMBDA p : p \notin bad)

\* a JSON array with one well-formed object per image sent, in the order sent
HonestItems(valid) == [j \in 1..Len(valid) |-> [src |-> valid[j], shape |-> "full"]]

\* element shapes: "full" = object with tags and description, "missing" =
\* object without them, "null" = object holding null for both, "nondict" =
\* a JSON value that is not an object
Shapes == {"full", "missing", "null", "nondict"}

\* what generate_content can answer for the images sent
GoodResponse(valid) == [kind |-> "json", list |-> TRUE, items |-> HonestItems(valid)]

BadResponses(valid) ==
    {[kind |-> k, list |-> FALSE, items |-> <<>>] : k \in {"api_error", "empty", "bad_json"}}
    \cup {[kind |-> "json", list |-> FALSE, items |-> <<>>]}
    \cup {[kind |-> "json", list |-> TRUE,
           items |-> [HonestItems(valid) EXCEPT ![j].shape = s]] :
              j \in 1..Len(valid), s \in Shapes \ {"full"}}
    \cup {[kind |-> "json", list |-> TRUE,
           items |-> Take(HonestItems(valid), Len(valid) - 1)]}
    \cup {[kind |-> "json", list |-> TRUE,
           items |-> Append(HonestItems(valid), HonestItems(valid)[Len(valid)])]}

NoResults == [raised |-> FALSE, error |-> FALSE, called |-> FALSE,
              list |-> TRUE, batch_results |-> <<>>, image_paths |-> <<>>]

ErrorResults(called) == [raised |-> FALSE, error |-> TRUE, called |-> called,
                         list |-> TRUE, batch_results |-> <<>>, image_paths |-> <<>>]

get_image_tags_batch_as_parts_without_empty_check(image_paths, bad, hasKey, response) ==
    LET valid_images == ValidImages(image_paths, bad)
    IN  IF ~hasKey
        THEN [NoResults EXCEPT !.raised = TRUE]
        ELSE IF response.kind \in {"api_error", "empty", "bad_json"}
        THEN ErrorResults(TRUE)
        ELSE [raised |-> FALSE, error |-> FALSE, called |-> TRUE,
              list |-> response.list, batch_results |-> response.items,
              image_paths |-> valid_images]

\* the dict returned for the paths of a batch (or the exception raised),
\* given the environment: api key present, unloadable files, model response
get_image_tags_batch_as_parts(image_paths, bad, hasKey, response) ==
    LET valid_images == ValidImages(image_paths, bad)
    IN  IF ~hasKey
        THEN [NoResults EXCEPT !.raised = TRUE]
        ELSE IF Len(valid_images) = 0
        THEN ErrorResults(FALSE)
        ELSE IF response.kind \in {"api_error", "empty", "bad_json"}
        THEN ErrorResults(TRUE)
        ELSE [raised |-> FALSE, error |-> FALSE, called |-> TRUE,
              list |-> response.list, batch_results |-> response.items,
              image_paths |-> valid_images]

\* ------------------------------------------------- background_worker.py
AfterFetch_always_analyzing(untagged_images) == "analyzing"

\* "if untagged_images:" ... "else: No untagged images found"
AfterFetch(untagged_images) ==
    IF untagged_images # <<>> THEN "analyzing" ELSE "sleeping"

AfterTagging_ignoring_error(results) ==
    IF results.raised THEN "exception" ELSE "commit"

\* 'if "error" not in tagging_results:' ... 'else: Error in tagging'
AfterTagging(results) ==
    IF results.raised THEN "exception"
    ELSE IF ~results.error THEN "commit" ELSE "tag_error"

\* the loop "for i, result in enumerate(batch_results)" run from position i up
\* to its next await: "update" when update_image is about to be awaited for
\* position i, otherwise how the loop ends before that
LoopFrom(results, untagged_images, i) ==
    IF ~results.list THEN "exception"
    ELSE IF i > Len(results.batch_results) THEN "done"
    ELSE IF i > Len(untagged_images) THEN "done"
    ELSE IF results.batch_results[i].shape = "nondict" THEN "exception"
    ELSE "update"

\* result.get("tags", []) / result.get("description", "")
ResultField(result) ==
    IF result.shape = "full" THEN Some(result.src)
    ELSE IF result.shape = "missing" THEN Some(-1)
    ELSE None

\* ------------------------------------------------------------ worker tick
\* top of "while True": open the session and await get_untagged_images
Fetch ==
    /\ pc = "idle"
    /\ \E ok \in BOOLEAN :
        /\ ~ok => faults < MaxFaults
        /\ faults' = IF ok THEN faults ELSE faults + 1
        /\ IF ok
           THEN /\ batch' = get_untagged_images(images, BatchLimit)
                /\ pc' = AfterFetch(batch')
                /\ tickOutcome' = IF batch' = <<>> THEN "no_images" ELSE "running"
           ELSE /\ batch' = <<>>
                /\ pc' = "sleeping"
                /\ tickOutcome' = "exception"
    /\ tagging_results' = NoResults
    /\ idx' = 0
    /\ tickTagCalls' = 0
    /\ tickVisionCalls' = 0
    /\ tickUpdates' = {}
    /\ tickFailed' = {}
    /\ userEdited' = {}
    /\ deletedIds' = {}
    /\ UNCHANGED <<images, badPaths, findVars, ctxVars, utilVars, loopVars, stageVars>>

\* the synchronous call of get_image_tags_batch_as_parts and the code after it
\* up to the first awaited update_image
Analyze ==
    /\ pc = "analyzing"
    /\ LET image_paths == [k \in 1..Len(batch) |-> batch[k].id]
           valid == ValidImages(image_paths, badPaths)
       IN  \E hasKey \in BOOLEAN,
              response \in {GoodResponse(valid)} \cup
                           (IF Len(valid) = 0 THEN {} ELSE BadResponses(valid)) :
            LET results == get_image_tags_batch_as_parts(image_paths, badPaths,
                                                         hasKey, response)
                faulty == ~hasKey \/ response # GoodResponse(valid)
                branch == AfterTagging(results)
                loop == LoopFrom(results, batch, 1)
            IN  /\ faulty => faults < MaxFaults
                /\ faults' = IF faulty THEN faults + 1 ELSE faults
                /\ tagging_results' = results
                /\ tickTagCalls' = tickTagCalls + 1
                /\ tickVisionCalls' = tickVisionCalls + (IF results.called THEN 1 ELSE 0)
                /\ IF branch = "commit" /\ loop = "update"
                   THEN /\ pc' = "committing"
                        /\ idx' = 1
                        /\ tickOutcome' = "running"
                   ELSE /\ pc' = "sleeping"
                        /\ idx' = 0
                        /\ tickOutcome' = IF branch = "commit" THEN loop ELSE branch
    /\ UNCHANGED <<images, badPaths, batch, tickUpdates, tickFailed, findVars, ctxVars, utilVars, loopVars, stageVars, editVars>>

\* one awaited update_image of the loop and the code up to the next await;
\* the update either succeeds, raises before anything is committed ("fail"),
\* or raises in the re-read after its commit ("fail_after")
Commit ==
    /\ pc = "committing"
    /\ LET image == batch[idx]
           result == tagging_results.batch_results[idx]
       IN  \E outcome \in {"ok", "fail", "fail_after"} :
            /\ outcome # "ok" => faults < MaxFaults
            /\ faults' = IF outcome = "ok" THEN faults ELSE faults + 1
            /\ images' = IF outcome = "fail" THEN images
                         ELSE update_image(images, image.id, ResultField(result),
                                           ResultField(result), Some(TRUE))
            /\ tickUpdates' = tickUpdates \cup {image.id}
            /\ tickFailed' = IF outcome = "ok" THEN tickFailed
                             ELSE tickFailed \cup {image.id}
            /\ IF outcome = "ok" /\ LoopFrom(tagging_results, batch, idx + 1) = "update"
               THEN /\ pc' = "committing"
                    /\ idx' = idx + 1
                    /\ tickOutcome' = "running"
               ELSE /\ pc' = "sleeping"
                    /\ idx' = idx
                    /\ tickOutcome' = IF outcome = "ok"
                                      THEN LoopFrom(tagging_results, batch, idx + 1)
                                      ELSE "exception"
    /\ UNCHANGED <<badPaths, batch, tagging_results, tickTagCalls, tickVisionCalls,
                   findVars, ctxVars, utilVars, loopVars, stageVars, editVars>>

Sleep_ending_after_error ==
    /\ pc = "sleeping"
    /\ pc' = IF tickOutcome = "exception" THEN "stopped" ELSE "idle"
    /\ UNCHANGED <<images, badPaths, faults, batch, tagging_results, idx, tickOutcome,
                   tickTagCalls, tickVisionCalls, tickUpdates, tickFailed,
                   findVars, ctxVars, utilVars, loopVars, stageVars, editVars>>

\* await asyncio.sleep(15) returns
Sleep ==
    /\ pc = "sleeping"
    /\ pc' = "idle"
    /\ UNCHANGED <<images, badPaths, faults, batch, tagging_results, idx, tickOutcome,
                   tickTagCalls, tickVisionCalls, tickUpdates, tickFailed,
                   findVars, ctxVars, utilVars, loopVars, stageVars, editVars>>

\* ------------------------------------------------------------ embedding.py
\* a similarity score x is held as the integer 1000 * x (exact for the
\* vectors used here, whose magnitudes are whole numbers)
ScoreScale == 1000

Ids(n) == [k \in 1..n |-> k]

SeqsUpTo(S, n) == UNION {[1..k -> S] : k \in 0..n}

RECURSIVE Dot(_, _)
\* sum(a * b for a, b in zip(x, y)): zip stops at the shorter list
Dot(a, b) == IF a = <<>> \/ b = <<>> THEN 0 ELSE a[1] * b[1] + Dot(Tail(a), Tail(b))

Sqrt(n) == CHOOSE r \in 0..n : r * r = n

\* "not x" for an Optional[List]: None or the empty list
Falsy(opt) == opt = None \/ opt[1] = <<>>

\* the list held by an Optional[List] (nothing for None)
Vec(opt) == IF opt = None THEN <<>> ELSE opt[1]

\* texts for which "not text or not text.strip()" holds
BlankTexts == {"", " "}

\* capability: what client.models.embed_content does when called, either
\* returning embeddings (ok) or raising
generate_text_embedding_uncaught(text, capability) ==
    IF text \in BlankTexts THEN [value |-> None, called |-> FALSE, raised |-> FALSE]
    ELSE IF ~capability.ok THEN [value |-> None, called |-> TRUE, raised |-> TRUE]
    ELSE [value |-> Some(capability.embeddings), called |-> TRUE, raised |-> FALSE]

\* one run of generate_text_embedding: the value returned, whether
\* embed_content was called, whether an exception left the function
generate_text_embedding_run(text, capability) ==
    IF text \in BlankTexts THEN [value |-> None, called |-> FALSE, raised |-> FALSE]
    ELSE IF ~capability.ok THEN [value |-> None, called |-> TRUE, raised |-> FALSE]
    ELSE [value |-> Some(capability.embeddings), called |-> TRUE, raised |-> FALSE]

generate_text_embedding(text, capability) ==
    generate_text_embedding_run(text, capability).value

calculate_cosine_similarity_without_length_check(embedding1, embedding2) ==
    IF embedding1 = <<>> \/ embedding2 = <<>>
    THEN 0
    ELSE LET dot_product == Dot(embedding1, embedding2)
             magnitude1 == Sqrt(Dot(embedding1, embedding1))
             magnitude2 == Sqrt(Dot(embedding2, embedding2))
         IN  IF magnitude1 = 0 \/ magnitude2 = 0 THEN 0
             ELSE (dot_product * ScoreScale) \div (magnitude1 * magnitude2)

calculate_cosine_similarity(embedding1, embedding2) ==
    IF embedding1 = <<>> \/ embedding2 = <<>> \/ Len(embedding1) # Len(embedding2)
    THEN 0
    ELSE LET dot_product == Dot(embedding1, embedding2)
             magnitude1 == Sqrt(Dot(embedding1, embedding1))
             magnitude2 == Sqrt(Dot(embedding2, embedding2))
         IN  IF magnitude1 = 0 \/ magnitude2 = 0 THEN 0
             ELSE (dot_product * ScoreScale) \div (magnitude1 * magnitude2)

InsertByScore_unstable(sorted, x) ==
    LET p == Cardinality({i \in 1..Len(sorted) : sorted[i].score > x.score})
    IN  SubSeq(sorted, 1, p) \o <<x>> \o SubSeq(sorted, p + 1, Len(sorted))

\* list.sort(key=lambda x: x[1], reverse=True): stable, highest score first
InsertByScore(sorted, x) ==
    LET p == Cardinality({i \in 1..Len(sorted) : sorted[i].score >= x.score})
    IN  SubSeq(sorted, 1, p) \o <<x>> \o SubSeq(sorted, p + 1, Len(sorted))

RECURSIVE SortByScoreDesc(_)
SortByScoreDesc(s) ==
    IF s = <<>> THEN <<>>
    ELSE InsertByScore(SortByScoreDesc(SubSeq(s, 1, Len(s) - 1)), s[Len(s)])

\* ------------------------------------------------------ audio_repository.py
\* rows of the SELECT: embedding IS NOT NULL, transcription IS NOT NULL and # ""
AudioCandidates(audioTable) ==
    SelectSeq(Ids(Len(audioTable)),
              LAMBDA a : /\ audioTable[a].embedding # None
                         /\ audioTable[a].transcription # None
                         /\ audioTable[a].transcription[1] # "")

ScoredAudio(audioTable, query_embedding) ==
    [k \in 1..Len(AudioCandidates(audioTable)) |->
        [id |-> AudioCandidates(audioTable)[k],
         score |-> calculate_cosine_similarity(
                       Vec(query_embedding),
                       Vec(audioTable[AudioCandidates(audioTable)[k]].embedding))]]

search_audio_by_similarity_unsorted(audioTable, query_text, capability, threshold, limit) ==
    LET query_embedding == generate_text_embedding(query_text, capability)
    IN  IF Falsy(query_embedding) THEN <<>>
        ELSE Take(SelectSeq(ScoredAudio(audioTable, query_embedding),
                            LAMBDA m : m.score >= threshold), limit)

search_audio_by_similarity(audioTable, query_text, capability, threshold, limit) ==
    LET query_embedding == generate_text_embedding(query_text, capability)
        similarities == SelectSeq(ScoredAudio(audioTable, query_embedding),
                                  LAMBDA m : m.score >= threshold)
    IN  IF Falsy(query_embedding) THEN <<>>
        ELSE Take(SortByScoreDesc(similarities), limit)

\* the image table of media, in table order; audio_id 0 stands for NULL
ImageIds(mediaTable) ==
    SelectSeq(Ids(Len(mediaTable)), LAMBDA m : mediaTable[m].kind = "image")

VideoIds(mediaTable) ==
    SelectSeq(Ids(Len(mediaTable)), LAMBDA m : mediaTable[m].kind = "video")

\* select(ImageModel.id).where(ImageModel.audio_id.in_(audio_ids))
get_images_by_audio_similarity(mediaTable, audioTable, query_text, capability, threshold, limit) ==
    LET similar_audio == search_audio_by_similarity(audioTable, query_text, capability,
                                                    threshold, limit)
        audio_ids == {similar_audio[k].id : k \in 1..Len(similar_audio)}
    IN  IF audio_ids = {} THEN <<>>
        ELSE SelectSeq(ImageIds(mediaTable), LAMBDA m : mediaTable[m].audio_id \in audio_ids)

\* ------------------------------------------------------ video_repository.py
\* scalar_one_or_none(): the row, None, or MultipleResultsFound raised
get_video_by_audio_id(mediaTable, audio_id) ==
    LET rows == SelectSeq(VideoIds(mediaTable), LAMBDA m : mediaTable[m].audio_id = audio_id)
    IN  [raised |-> Len(rows) > 1,
         video |-> IF Len(rows) = 1 THEN Some(rows[1]) ELSE None]

\* ------------------------------------------------------ image_repository.py
\* rows of the join of images with audio whose embedding IS NOT NULL
JoinedImages(mediaTable, audioTable) ==
    SelectSeq(ImageIds(mediaTable),
              LAMBDA m : /\ mediaTable[m].audio_id \in 1..Len(audioTable)
                         /\ audioTable[mediaTable[m].audio_id].embedding # None)

search_similar_audio_embeddings(mediaTable, audioTable, query_embedding, limit) ==
    LET rows == SelectSeq(JoinedImages(mediaTable, audioTable),
                          LAMBDA m : ~Falsy(audioTable[mediaTable[m].audio_id].embedding))
        scored_images ==
            [k \in 1..Len(rows) |->
                [id |-> rows[k],
                 score |-> calculate_cosine_similarity(
                               Vec(query_embedding),
                               Vec(audioTable[mediaTable[rows[k]].audio_id].embedding))]]
    IN  IF Falsy(query_embedding) THEN <<>>
        ELSE Take(SortByScoreDesc(scored_images), limit)

\* select(ImageModel).order_by(ImageModel.timestamp.desc()).limit(limit)
RecentImages(mediaTable, limit) ==
    LET ids == ImageIds(mediaTable)
    IN  Take([k \in 1..Len(ids) |-> ids[Len(ids) + 1 - k]], limit)

get_images_by_audio_without_fallback(mediaTable, audioTable, audio_description, capability, limit) ==
    LET query_embedding == generate_text_embedding(audio_description, capability)
        similar_audio == search_similar_audio_embeddings(mediaTable, audioTable,
                                                         query_embedding, limit)
    IN  IF Falsy(query_embedding) THEN <<>>
        ELSE [k \in 1..Len(similar_audio) |-> similar_audio[k].id]

get_images_by_audio(mediaTable, audioTable, audio_description, capability, limit) ==
    LET query_embedding == generate_text_embedding(audio_description, capability)
        similar_audio == search_similar_audio_embeddings(mediaTable, audioTable,
                                                         query_embedding, limit)
        image_list == [k \in 1..Len(similar_audio) |-> similar_audio[k].id]
    IN  IF Falsy(query_embedding) THEN RecentImages(mediaTable, limit)
        ELSE IF image_list = <<>> THEN RecentImages(mediaTable, limit)
        ELSE image_list

\* ------------------------------------------------------------ retrieval calls
Embedded(vec) == [ok |-> TRUE, embeddings |-> vec]

Raising == [ok |-> FALSE, embeddings |-> <<>>]

NoCall == [op |-> "none", text |-> "", capability |-> Raising, threshold |-> 0,
           limit |-> 0, audio_id |-> 0, matches |-> <<>>, ids |-> <<>>,
           raised |-> FALSE]

Queries ==
    {[text |-> t, capability |-> Embedded(<<5, 0>>)] : t \in BlankTexts}
    \cup {[text |-> "q", capability |-> c] :
             c \in {Raising, Embedded(<<5, 0>>), Embedded(<<4, 3>>)}}

\* threshold=0.7 and limit=10 are the defaults of search_audio_by_similarity
DefaultThreshold == 700
DefaultLimit == 10

Thresholds == {0, DefaultThreshold, 1100}

Limits == {1, DefaultLimit}

AudioVals ==
    {[embedding |-> None, transcription |-> None],
     [embedding |-> Some(<<5, 0>>), transcription |-> Some("text")],
     [embedding |-> Some(<<3, 4>>), transcription |-> Some("text")],
     [embedding |-> Some(<<5, 0>>), transcription |-> Some("")]}

AudioTables == SeqsUpTo(AudioVals, MaxAudio)

MediaTables(audioTable, maxMedia) ==
    SeqsUpTo([kind : {"image", "video"}, audio_id : 0..Len(audioTable)], maxMedia)

\* ------------------------------------------------------ transcription.py
\* names bound at module level by the import statements of transcription.py
ModuleNames_with_audio_imports ==
    {"os", "tempfile", "Path", "Optional", "dotenv", "sd", "genai", "base64", "np", "wave"}

ModuleNames == {"os", "tempfile", "Path", "Optional", "dotenv", "sd", "genai"}

\* what the caller hands over, and what the transcription service does
AudioInputs == {"valid", "corrupt", "missing"}

Transcribers == {"text", "no_text", "processing_failed", "service_error"}

\* save_audio_from_base64 looks up base64, np and wave, then frames: a name
\* that is not bound raises NameError; undecodable bytes raise as well
\* the file exists once wave.open(filename, 'wb') has run, which is before the
\* frames loop is reached
save_audio_from_base64(audio) ==
    [raised |-> \/ ~({"base64", "np", "wave", "frames"} \subseteq ModuleNames)
                \/ audio # "valid",
     created |-> {"base64", "np", "wave"} \subseteq ModuleNames /\ audio = "valid"]

\* FileNotFoundError and ValueError are re-raised, any other error gives None
transcribe_audio_with_gemini(staged, hasKey, transcriber) ==
    IF ~hasKey THEN [raised |-> TRUE, value |-> None]
    ELSE IF ~staged THEN [raised |-> TRUE, value |-> None]
    ELSE IF transcriber = "text" THEN [raised |-> FALSE, value |-> Some("text")]
    ELSE [raised |-> FALSE, value |-> None]

\* try: stage, then try: transcribe finally: unlink; except Exception: None
\* (staging sits outside the inner try, so its failure skips the unlink)
transcribe_audio_from_bytes(audio, hasKey, transcriber) ==
    LET staging == save_audio_from_base64(audio)
        result == transcribe_audio_with_gemini(~staging.raised, hasKey, transcriber)
    IN  IF staging.raised
        THEN [raised |-> FALSE, value |-> None, transcribed |-> FALSE,
              unlinked |-> FALSE, left |-> staging.created]
        ELSE IF result.raised
        THEN [raised |-> FALSE, value |-> None, transcribed |-> TRUE,
              unlinked |-> TRUE, left |-> FALSE]
        ELSE [raised |-> FALSE, value |-> result.value, transcribed |-> TRUE,
              unlinked |-> TRUE, left |-> FALSE]

\* vectors handed to calculate_cosine_similarity: absent, empty, of length
\* one and two, of zero magnitude
SimilarityInputs ==
    {None, Some(<<>>), Some(<<5>>), Some(<<0>>), Some(<<5, 0>>), Some(<<0, 5>>),
     Some(<<3, 4>>), Some(<<4, 3>>), Some(<<0, 0>>), Some(<<0, 0, 5>>)}

\* ------------------------------------------------------------ agent.py
NoCaller == [cpc |-> "idle", snap |-> [images |-> 0, videos |-> 0], context |-> None]

\* get_all_images(limit=300), get_all_videos(limit=200)
ImageSample == 300
VideoSample == 200

Min(a, b) == IF a < b THEN a ELSE b

\* what the two queries of a rebuild return from the store
ReadSample(store) == [images |-> Min(store.images, ImageSample),
                      videos |-> Min(store.videos, VideoSample)]

\* the video loop reaches "video_info.append" for the second video of the
\* sample, and video_info is bound nowhere: NameError
RebuildRaises(snap) == snap.videos >= 2

\* "\n".join(context_parts): the text rendered from the records read
Digest(snap) == snap

WorkerInit(sizes, maxBad) ==
    /\ \E n \in sizes : images = [i \in 1..n |-> NewImage]
    /\ badPaths \in {S \in SUBSET (DOMAIN images) : Cardinality(S) <= maxBad}
    /\ faults = 0
    /\ pc = "idle"
    /\ batch = <<>>
    /\ tagging_results = NoResults
    /\ idx = 0
    /\ tickOutcome = "none"
    /\ tickTagCalls = 0
    /\ tickVisionCalls = 0
    /\ tickUpdates = {}
    /\ tickFailed = {}

\* no retrieval call made, empty audio and media tables
FindInit(audioTables, maxMedia) ==
    /\ audios \in audioTables
    /\ media \in MediaTables(audios, maxMedia)
    /\ found = NoCall

\* the agent as constructed: context_cache = None, no connection
CtxInit(counts) ==
    /\ context_cache = None
    /\ ctxStore \in [images : counts, videos : counts]
    /\ callers = [c \in 1..MaxCallers |-> NoCaller]
    /\ storeQueries = 0
    /\ returned = {}
    /\ stale = {}
    /\ cacheStale = FALSE
    /\ lastResponse = None

\* no utility function called yet
NoUtilCall == [fn |-> "none"]

UtilInit == lastCall = NoUtilCall

\* the application as started by lifespan: worker task created, not cancelled
LoopInit ==
    /\ cancelledAt = "none"
    /\ pending = 0

\* no handler is transcribing, no staged file exists
NoTranscription == [spc |-> "idle", route |-> "image", audio |-> "missing", filename |-> "", value |-> None]

StageInit ==
    /\ calls = [c \in 1..MaxCalls |-> NoTranscription]
    /\ files = {}

\* no user edit made
EditInit ==
    /\ userEdited = {}
    /\ deletedIds = {}

Init ==
    /\ WorkerInit(0..MaxImages, MaxBad)
    /\ FindInit({<<>>}, 0)
    /\ CtxInit({0})
    /\ UtilInit
    /\ LoopInit
    /\ StageInit
    /\ EditInit

Next == Fetch \/ Analyze \/ Commit \/ Sleep

Spec == Init /\ [][Next]_vars

\* the same worker over a store larger than one batch
InitLarge ==
    /\ WorkerInit((BatchLimit + 1)..MaxLarge, 0)
    /\ FindInit({<<>>}, 0)
    /\ CtxInit({0})
    /\ UtilInit
    /\ LoopInit
    /\ StageInit
    /\ EditInit

SpecLarge == InitLarge /\ [][Next]_vars

\* the worker task keeps being scheduled: the event loop runs a coroutine
\* whose await has completed
InitLive ==
    /\ WorkerInit(0..MaxImages, 0)
    /\ FindInit({<<>>}, 0)
    /\ CtxInit({0})
    /\ UtilInit
    /\ LoopInit
    /\ StageInit
    /\ EditInit

SpecLive == InitLive /\ [][Next]_vars /\ WF_vars(Next)

\* the worker, fairly scheduled, over a store larger than one batch whose
\* newest records have files that cannot be loaded; every store and vision
\* call succeeds from here on (no failure left to inject)
InitStarve ==
    /\ \E n \in (BatchLimit + 1)..MaxLarge : images = [i \in 1..n |-> NewImage]
    /\ \E k \in 0..BatchLimit :
        badPaths = {i \in DOMAIN images : i > Len(images) - k}
    /\ faults = MaxFaults
    /\ pc = "idle"
    /\ batch = <<>>
    /\ tagging_results = NoResults
    /\ idx = 0
    /\ tickOutcome = "none"
    /\ tickTagCalls = 0
    /\ tickVisionCalls = 0
    /\ tickUpdates = {}
    /\ tickFailed = {}
    /\ FindInit({<<>>}, 0)
    /\ CtxInit({0})
    /\ UtilInit
    /\ LoopInit
    /\ StageInit
    /\ EditInit

SpecStarve == InitStarve /\ [][Next]_vars /\ WF_vars(Next)

\* ------------------------------------------------------------ retrieval
\* one repository call per behaviour, on the tables drawn by the initial state
Call(op, q, threshold, limit, audio_id, matches, ids, raised) ==
    [op |-> op, text |-> q.text, capability |-> q.capability, threshold |-> threshold,
     limit |-> limit, audio_id |-> audio_id, matches |-> matches, ids |-> ids,
     raised |-> raised]

SearchAudio ==
    /\ found.op = "none"
    /\ \E q \in Queries, threshold \in Thresholds, limit \in Limits :
        found' = Call("search_audio_by_similarity", q, threshold, limit, 0,
                      search_audio_by_similarity(audios, q.text, q.capability,
                                                 threshold, limit),
                      <<>>, FALSE)
    /\ UNCHANGED <<audios, media, workerVars, ctxVars, utilVars, loopVars, stageVars, editVars>>

SearchImageEmbeddings ==
    /\ found.op = "none"
    /\ \E q \in Queries, limit \in Limits :
        found' = Call("search_similar_audio_embeddings", q, 0, limit, 0,
                      search_similar_audio_embeddings(
                          media, audios, generate_text_embedding(q.text, q.capability),
                          limit),
                      <<>>, FALSE)
    /\ UNCHANGED <<audios, media, workerVars, ctxVars, utilVars, loopVars, stageVars, editVars>>

ImagesByAudio ==
    /\ found.op = "none"
    /\ \E q \in Queries, limit \in Limits :
        found' = Call("get_images_by_audio", q, 0, limit, 0, <<>>,
                      get_images_by_audio(media, audios, q.text, q.capability, limit),
                      FALSE)
    /\ UNCHANGED <<audios, media, workerVars, ctxVars, utilVars, loopVars, stageVars, editVars>>

ImagesByAudioSimilarity ==
    /\ found.op = "none"
    /\ \E q \in Queries, threshold \in {DefaultThreshold}, limit \in Limits :
        found' = Call("get_images_by_audio_similarity", q, threshold, limit, 0, <<>>,
                      get_images_by_audio_similarity(media, audios, q.text, q.capability,
                                                     threshold, limit),
                      FALSE)
    /\ UNCHANGED <<audios, media, workerVars, ctxVars, utilVars, loopVars, stageVars, editVars>>

VideoByAudioId ==
    /\ found.op = "none"
    /\ \E a \in 1..Len(audios) :
        LET r == get_video_by_audio_id(media, a)
        IN  found' = Call("get_video_by_audio_id", [text |-> "", capability |-> Raising],
                          0, 0, a, <<>>, r.video, r.raised)
    /\ UNCHANGED <<audios, media, workerVars, ctxVars, utilVars, loopVars, stageVars, editVars>>

InitFind ==
    /\ WorkerInit({0}, 0)
    /\ FindInit(AudioTables, MaxMedia)
    /\ CtxInit({0})
    /\ UtilInit
    /\ LoopInit
    /\ StageInit
    /\ EditInit

NextFind ==
    \/ SearchAudio
    \/ SearchImageEmbeddings
    \/ ImagesByAudio
    \/ ImagesByAudioSimilarity
    \/ VideoByAudioId

SpecFind == InitFind /\ [][NextFind]_vars

\* ------------------------------------------------------------ context cache
\* a connection calls prepare_context: the cached digest is returned at once,
\* otherwise the rebuild starts and awaits its store queries
PrepareContext(c) ==
    /\ callers[c].cpc = "idle"
    /\ IF context_cache # None
       THEN /\ callers' = [callers EXCEPT ![c] = [cpc |-> "connected", snap |-> @.snap,
                                                  context |-> context_cache]]
            /\ returned' = returned \cup {context_cache[1]}
            /\ stale' = IF cacheStale THEN stale \cup {c} ELSE stale \ {c}
            /\ UNCHANGED storeQueries
       ELSE /\ storeQueries < MaxQueries
            /\ callers' = [callers EXCEPT ![c] = [cpc |-> "building",
                                                  snap |-> ReadSample(ctxStore),
                                                  context |-> None]]
            /\ storeQueries' = storeQueries + 1
            /\ stale' = stale \ {c}
            /\ UNCHANGED returned
    /\ UNCHANGED <<context_cache, ctxStore, cacheStale, lastResponse,
                   workerVars, findVars, utilVars, loopVars, stageVars, editVars>>

\* the rebuild runs to its end: it raises, or stores and returns the digest
FinishContext(c) ==
    /\ callers[c].cpc = "building"
    /\ IF RebuildRaises(callers[c].snap)
       THEN /\ callers' = [callers EXCEPT ![c].cpc = "failed"]
            /\ UNCHANGED <<context_cache, returned, cacheStale>>
       ELSE /\ context_cache' = Some(Digest(callers[c].snap))
            /\ callers' = [callers EXCEPT ![c] = [cpc |-> "connected", snap |-> @.snap,
                                                  context |-> context_cache']]
            /\ returned' = returned \cup {Digest(callers[c].snap)}
            /\ cacheStale' = (c \in stale)
    /\ UNCHANGED <<ctxStore, storeQueries, stale, lastResponse,
                   workerVars, findVars, utilVars, loopVars, stageVars, editVars>>

\* a chat message arrives on a connection: generate_response(user_message,
\* context) with the context the handler obtained when the connection opened
Respond(c) ==
    /\ callers[c].cpc = "connected"
    /\ lastResponse' = Some([by |-> c, stale |-> c \in stale])
    /\ UNCHANGED <<context_cache, ctxStore, callers, storeQueries, returned, stale,
                   cacheStale, workerVars, findVars, utilVars, loopVars, stageVars, editVars>>

\* the websocket handler ends (client gone, or the error was reported)
Disconnect(c) ==
    /\ callers[c].cpc \in {"connected", "failed"}
    /\ callers' = [callers EXCEPT ![c] = NoCaller]
    /\ stale' = stale \ {c}
    /\ UNCHANGED <<context_cache, ctxStore, storeQueries, returned, cacheStale,
                   lastResponse, workerVars, findVars, utilVars, loopVars, stageVars, editVars>>

\* POST /refresh-context
clear_context_cache ==
    /\ context_cache' = None
    /\ storeQueries' = 0
    /\ returned' = {}
    /\ stale' = {c \in 1..MaxCallers : callers[c].cpc \in {"building", "connected"}}
    /\ cacheStale' = FALSE
    /\ UNCHANGED <<ctxStore, callers, lastResponse,
                   workerVars, findVars, utilVars, loopVars, stageVars, editVars>>

\* an image or a video is ingested
StoreGrows ==
    /\ \E kind \in {"images", "videos"} :
        /\ ctxStore[kind] < MaxCtxRecords
        /\ ctxStore' = [ctxStore EXCEPT ![kind] = @ + 1]
    /\ UNCHANGED <<context_cache, callers, storeQueries, returned, stale, cacheStale,
                   lastResponse, workerVars, findVars, utilVars, loopVars, stageVars, editVars>>

InitCtx ==
    /\ WorkerInit({0}, 0)
    /\ FindInit({<<>>}, 0)
    /\ CtxInit(0..MaxCtxRecords)
    /\ UtilInit
    /\ LoopInit
    /\ StageInit
    /\ EditInit

NextCtx ==
    \/ \E c \in 1..MaxCallers : PrepareContext(c)
    \/ \E c \in 1..MaxCallers : FinishContext(c)
    \/ \E c \in 1..MaxCallers : Respond(c)
    \/ \E c \in 1..MaxCallers : Disconnect(c)
    \/ clear_context_cache
    \/ StoreGrows

SpecCtx == InitCtx /\ [][NextCtx]_vars

\* ------------------------------------------------------------ event loop
\* the worker is a coroutine of the server's event loop: between two awaits it
\* holds the loop. get_image_tags_batch_as_parts is called without await and
\* calls generate_content synchronously, so the loop is held for the whole
\* analysis.
EventLoopFree == pc # "analyzing"

\* a client request (similarity query or upload) reaches the server socket
Arrive ==
    /\ cancelledAt = "none"
    /\ pending < MaxPending
    /\ pending' = pending + 1
    /\ UNCHANGED <<cancelledAt, workerVars, findVars, ctxVars, utilVars, stageVars, editVars>>

\* the event loop runs the handler of a waiting request to its end; an upload
\* creates an unprocessed image record
Serve ==
    /\ cancelledAt = "none"
    /\ pending > 0
    /\ EventLoopFree
    /\ pending' = pending - 1
    /\ \E kind \in {"query", "upload"} :
        images' = IF kind = "upload" /\ Len(images) < MaxImages
                  THEN Append(images, NewImage) ELSE images
    /\ UNCHANGED <<badPaths, faults, pc, batch, tagging_results, idx, tickOutcome,
                   tickTagCalls, tickVisionCalls, tickUpdates, tickFailed,
                   cancelledAt, findVars, ctxVars, utilVars, stageVars, editVars>>

Cancel_seen_between_ticks ==
    /\ cancelledAt = "none"
    /\ EventLoopFree
    /\ cancelledAt' = pc
    /\ pc' = IF pc = "idle" THEN "cancelled" ELSE pc
    /\ UNCHANGED <<images, badPaths, faults, batch, tagging_results, idx, tickOutcome,
                   tickTagCalls, tickVisionCalls, tickUpdates, tickFailed,
                   pending, findVars, ctxVars, utilVars, stageVars, editVars>>

\* lifespan shutdown: task.cancel() throws CancelledError into the worker at
\* the await it is suspended in; CancelledError is not an Exception, so the
\* handler of the tick does not catch it, and the sleep is outside the try
Cancel ==
    /\ cancelledAt = "none"
    /\ EventLoopFree
    /\ cancelledAt' = pc
    /\ pc' = "cancelled"
    /\ UNCHANGED <<images, badPaths, faults, batch, tagging_results, idx, tickOutcome,
                   tickTagCalls, tickVisionCalls, tickUpdates, tickFailed,
                   pending, findVars, ctxVars, utilVars, stageVars, editVars>>

InitLoop ==
    /\ WorkerInit(0..MaxImages, 0)
    /\ FindInit({<<>>}, 0)
    /\ CtxInit({0})
    /\ UtilInit
    /\ LoopInit
    /\ StageInit
    /\ EditInit

NextLoop == Fetch \/ Analyze \/ Commit \/ Sleep \/ Arrive \/ Serve \/ Cancel

SpecLoop == InitLoop /\ [][NextLoop]_vars

\* ------------------------------------------------------------ audio store
\* transcriptions handed to create_audio / update_audio
Transcriptions == {None, Some(""), Some(" "), Some("text")}

Embedders == {Raising, Embedded(<<5, 0>>), Embedded(<<4, 3>>)}

\* "if transcription and transcription.strip()"
HasText(transcription) == transcription # None /\ transcription[1] \notin BlankTexts

\* the row create_audio adds: the embedding is asked for only when there is
\* text, and is None when the capability fails
create_audio(transcription, capability) ==
    [embedding |-> IF HasText(transcription)
                   THEN generate_text_embedding(transcription[1], capability)
                   ELSE None,
     transcription |-> transcription]

\* update_data is keyed by the column objects AudioModel.transcription and
\* AudioModel.embedding, and values(**update_data) takes keyword arguments:
\* with a key that is not a string the call raises TypeError before any
\* statement is built; with no transcription given nothing is written
update_audio(table, audio_id, transcription, capability) ==
    IF transcription = None THEN [raised |-> FALSE, table |-> table]
    ELSE [raised |-> TRUE, table |-> table]

CreateAudio ==
    /\ Len(audios) < MaxCreated
    /\ \E transcription \in Transcriptions, capability \in Embedders :
        audios' = Append(audios, create_audio(transcription, capability))
    /\ UNCHANGED <<media, found, workerVars, ctxVars, utilVars, loopVars, stageVars, editVars>>

UpdateAudio ==
    /\ \E audio_id \in 1..Len(audios), transcription \in Transcriptions,
          capability \in Embedders :
        LET run == update_audio(audios, audio_id, transcription, capability)
        IN  /\ audios' = run.table
            /\ lastCall' = [fn |-> "update_audio", audio_id |-> audio_id,
                            transcription |-> transcription, capability |-> capability,
                            raised |-> run.raised]
    /\ UNCHANGED <<media, found, workerVars, ctxVars, loopVars, stageVars, editVars>>

InitAudio ==
    /\ WorkerInit({0}, 0)
    /\ FindInit({<<>>}, 0)
    /\ CtxInit({0})
    /\ UtilInit
    /\ LoopInit
    /\ StageInit
    /\ EditInit

NextAudio == CreateAudio \/ UpdateAudio

SpecAudio == InitAudio /\ [][NextAudio]_vars

\* ------------------------------------------------------------ utility calls
Similarity ==
    /\ \E a \in SimilarityInputs, b \in SimilarityInputs :
        lastCall' = [fn |-> "calculate_cosine_similarity", a |-> a, b |-> b,
                     value |-> calculate_cosine_similarity(Vec(a), Vec(b)),
                     raised |-> FALSE]
    /\ UNCHANGED <<workerVars, findVars, ctxVars, loopVars, stageVars, editVars>>

Embed ==
    /\ \E q \in Queries :
        LET run == generate_text_embedding_run(q.text, q.capability)
        IN  lastCall' = [fn |-> "generate_text_embedding", text |-> q.text,
                         capability |-> q.capability, value |-> run.value,
                         called |-> run.called, raised |-> run.raised]
    /\ UNCHANGED <<workerVars, findVars, ctxVars, loopVars, stageVars, editVars>>

Transcribe ==
    /\ \E audio \in AudioInputs, hasKey \in BOOLEAN, transcriber \in Transcribers :
        LET run == transcribe_audio_from_bytes(audio, hasKey, transcriber)
        IN  lastCall' = [fn |-> "transcribe_audio_from_bytes", audio |-> audio,
                         hasKey |-> hasKey, transcriber |-> transcriber,
                         value |-> run.value, transcribed |-> run.transcribed,
                         raised |-> run.raised]
    /\ UNCHANGED <<workerVars, findVars, ctxVars, loopVars, stageVars, editVars>>

InitUtil ==
    /\ WorkerInit({0}, 0)
    /\ FindInit({<<>>}, 0)
    /\ CtxInit({0})
    /\ UtilInit
    /\ LoopInit
    /\ StageInit
    /\ EditInit

NextUtil == Similarity \/ Embed \/ Transcribe

SpecUtil == InitUtil /\ [][NextUtil]_vars

\* ------------------------------------------------------------ audio staging
\* the routes that transcribe uploaded audio
Routes == {"image", "video"}

\* upload_image passes "audio.wav"; create_video leaves the default "audio.wav"
AudioFileName(route) == IF route = "image" THEN "audio.wav" ELSE "audio.wav"

\* a handler enters transcribe_audio_from_bytes with the uploaded bytes
BeginTranscribe(c) ==
    /\ calls[c].spc = "idle"
    /\ \E route \in Routes, audio \in AudioInputs :
        calls' = [calls EXCEPT ![c] = [spc |-> "staging", route |-> route, audio |-> audio,
                                       filename |-> AudioFileName(route), value |-> None]]
    /\ UNCHANGED <<files, workerVars, findVars, ctxVars, utilVars, loopVars, editVars>>

\* the call stages, transcribes, cleans up and returns
FinishTranscribe(c) ==
    /\ calls[c].spc = "staging"
    /\ \E hasKey \in BOOLEAN, transcriber \in Transcribers :
        LET run == transcribe_audio_from_bytes(calls[c].audio, hasKey, transcriber)
        IN  /\ calls' = [calls EXCEPT ![c].spc = "done", ![c].value = run.value]
            /\ files' = IF run.left THEN files \cup {calls[c].filename}
                         ELSE IF run.unlinked THEN files \ {calls[c].filename}
                         ELSE files
    /\ UNCHANGED <<workerVars, findVars, ctxVars, utilVars, loopVars, editVars>>

\* the handler goes on with the returned transcription and ends
EndRequest(c) ==
    /\ calls[c].spc = "done"
    /\ calls' = [calls EXCEPT ![c] = NoTranscription]
    /\ UNCHANGED <<files, workerVars, findVars, ctxVars, utilVars, loopVars, editVars>>

InitStage ==
    /\ WorkerInit({0}, 0)
    /\ FindInit({<<>>}, 0)
    /\ CtxInit({0})
    /\ UtilInit
    /\ LoopInit
    /\ StageInit
    /\ EditInit

NextStage ==
    \/ \E c \in 1..MaxCalls : BeginTranscribe(c)
    \/ \E c \in 1..MaxCalls : FinishTranscribe(c)
    \/ \E c \in 1..MaxCalls : EndRequest(c)

SpecStage == InitStage /\ [][NextStage]_vars

\* ------------------------------------------------------------ user edits
\* tags and description sent in the body of PUT /images/{image_id}
UserValue == -2

\* PUT /images/{image_id}: repository.update_image with the fields of the body;
\* the handler runs whenever the event loop is free
UserEdit(i) ==
    /\ EventLoopFree
    /\ i \in DOMAIN images
    /\ \E tagged \in {None, Some(TRUE)} :
        images' = update_image(images, i, Some(UserValue), Some(UserValue), tagged)
    /\ userEdited' = userEdited \cup {i}
    /\ UNCHANGED <<badPaths, faults, pc, batch, tagging_results, idx, tickOutcome,
                   tickTagCalls, tickVisionCalls, tickUpdates, tickFailed, deletedIds,
                   findVars, ctxVars, utilVars, loopVars, stageVars>>

\* DELETE /images/{image_id}: repository.delete_image
UserDelete(i) ==
    /\ EventLoopFree
    /\ i \in DOMAIN images
    /\ images' = [j \in DOMAIN images \ {i} |-> images[j]]
    /\ userEdited' = userEdited \ {i}
    /\ deletedIds' = deletedIds \cup {i}
    /\ UNCHANGED <<badPaths, faults, pc, batch, tagging_results, idx, tickOutcome,
                   tickTagCalls, tickVisionCalls, tickUpdates, tickFailed,
                   findVars, ctxVars, utilVars, loopVars, stageVars>>

InitEdit ==
    /\ WorkerInit(0..MaxImages, 0)
    /\ FindInit({<<>>}, 0)
    /\ CtxInit({0})
    /\ UtilInit
    /\ LoopInit
    /\ StageInit
    /\ EditInit

NextEdit ==
    \/ Fetch
    \/ Analyze
    \/ Commit
    \/ Sleep
    \/ \E i \in 1..MaxImages : UserEdit(i)
    \/ \E i \in 1..MaxImages : UserDelete(i)

SpecEdit == InitEdit /\ [][NextEdit]_vars

\* ------------------------------------------------------------ worker claims
BatchIds == {batch[k].id : k \in 1..Len(batch)}

BatchAsFetched ==
    \A k \in 1..Len(batch) :
        images[batch[k].id] = [tagged |-> batch[k].tagged, tags |-> batch[k].tags,
                               description |-> batch[k].description, rest |-> 0]

\* C1: every committed result is written to the record whose image produced
\* it, and a record whose image was dropped by the tagging step is never
\* marked processed.
C1_ResultsMappedThroughValidItems ==
    \A i \in DOMAIN images :
        /\ images[i].tags > 0 => images[i].tags = i
        /\ images[i].description > 0 => images[i].description = i
        /\ i \in badPaths => ~images[i].tagged

\* C2: when the tagging call returned an error outcome, the tick made no
\* update, every record of the batch is as fetched and unprocessed, and the
\* worker is sleeping (or has slept and is back at the top of the loop).
C2_ErrorOutcomeLeavesBatchForRetry ==
    tagging_results.error =>
        /\ pc \in {"sleeping", "idle"}
        /\ tickOutcome = "tag_error"
        /\ tickUpdates = {}
        /\ BatchAsFetched
        /\ \A i \in BatchIds : ~images[i].tagged

C2_Witness ==
    /\ tagging_results.error
    /\ tagging_results.called
    /\ pc = "sleeping"
    /\ Len(batch) >= 2

\* C3: once a tick that analysed its batch successfully has ended, a failed
\* update has not kept any other (record, result) pair of the batch from
\* being updated.
C3_FailedUpdateDoesNotBlockSiblings ==
    (/\ pc = "sleeping"
     /\ tickFailed # {}
     /\ tagging_results.list
     /\ \A k \in 1..Len(tagging_results.batch_results) :
            tagging_results.batch_results[k].shape = "full")
    => \A k \in 1..Len(batch) :
          k <= Len(tagging_results.batch_results) => batch[k].id \in tickUpdates

MalformedResults(results) ==
    \/ ~results.list
    \/ Len(results.batch_results) # Len(results.image_paths)
    \/ \E k \in 1..Len(results.batch_results) : results.batch_results[k].shape # "full"

\* C4: a tick whose vision response is valid JSON of another shape than one
\* well-formed object per image sent updates no record of its batch.
C4_MalformedResponseDiscardsBatch ==
    (tagging_results.called /\ ~tagging_results.error /\ MalformedResults(tagging_results))
    => (tickUpdates = {} /\ BatchAsFetched)

\* C5: a fetched batch holds at most 10 records, all of them unprocessed when
\* fetched, and none of them is processed when the batch is sent to tagging.
C5_BatchBoundedAndUnprocessed ==
    /\ Len(batch) <= BatchLimit
    /\ \A k \in 1..Len(batch) : batch[k].tagged = FALSE
    /\ pc = "analyzing" => \A i \in BatchIds : ~images[i].tagged

C5_Witness ==
    /\ pc = "analyzing"
    /\ Len(batch) = BatchLimit
    /\ Cardinality({i \in DOMAIN images : ~images[i].tagged}) > BatchLimit
    /\ \E i \in DOMAIN images : images[i].tagged

\* C6: a tick whose fetch returned no record calls neither the tagging
\* function nor the vision service, updates nothing, and goes to sleep.
C6_EmptyFetchIsNoOp ==
    tickOutcome = "no_images" =>
        /\ pc \in {"sleeping", "idle"}
        /\ batch = <<>>
        /\ tickTagCalls = 0
        /\ tickVisionCalls = 0
        /\ tickUpdates = {}

C6_Witness ==
    /\ tickOutcome = "no_images"
    /\ pc = "sleeping"
    /\ \E i \in DOMAIN images : images[i].tagged

\* C14: when no image of the batch could be loaded, the tagging call made no
\* call to the vision service, and (the API key being configured, so that the
\* call got as far as loading) it returned an error outcome.
C14_NoValidImageNoServiceCall ==
    (/\ tickTagCalls = 1
     /\ ValidImages([k \in 1..Len(batch) |-> batch[k].id], badPaths) = <<>>)
    => /\ tickVisionCalls = 0
       /\ ~tagging_results.called
       /\ ~tagging_results.raised => tagging_results.error

C14_Witness ==
    /\ tickTagCalls = 1
    /\ Len(batch) = 2
    /\ BatchIds \subseteq badPaths
    /\ tagging_results.error
    /\ ~tagging_results.called
    /\ pc = "sleeping"

\* C16: a record marked processed holds tags and a description written by
\* the update that marked it, never the values it had before enrichment.
C16_ProcessedImpliesEnriched ==
    \A i \in DOMAIN images :
        images[i].tagged => (images[i].tags # 0 /\ images[i].description # 0)

\* C19: the batch handed to tagging is in ascending creation order and no
\* unprocessed record left out of it is older than a record in it.
C19_BatchIsOldestFirst ==
    pc = "analyzing" =>
        /\ \A k, j \in 1..Len(batch) : k < j => batch[k].id < batch[j].id
        /\ \A i \in DOMAIN images :
              (~images[i].tagged /\ i \notin BatchIds) => \A b \in BatchIds : b < i

\* C20: a tick ends, whatever its outcome, in the sleep; a fetch is issued
\* only after the sleep that followed the previous tick; and the loop goes
\* on for ever: every sleep is followed by another tick, every tick by
\* another sleep.
C20_EveryTickSleepsThenLoops ==
    /\ [][/\ (pc \in {"idle", "analyzing", "committing"} /\ pc' # pc)
               => pc' \in {"analyzing", "committing", "sleeping"}
          /\ (pc \in {"analyzing", "committing"} /\ pc' \notin {"analyzing", "committing"})
               => pc' = "sleeping"
          /\ (pc' = "idle" /\ pc # "idle") => pc = "sleeping"
          /\ pc = "sleeping" => pc' \in {"sleeping", "idle"}]_vars
    /\ (pc = "sleeping") ~> (pc = "idle")
    /\ (pc = "idle") ~> (pc = "sleeping")

C20_Witness ==
    /\ pc = "idle"
    /\ tickOutcome = "exception"
    /\ tickFailed # {}
    /\ faults = MaxFaults

\* C26: with no ingestion, calls that end up succeeding and a fairly
\* scheduled worker, every record whose image can be loaded is eventually
\* tagged, also when a full batch of other records can never be loaded.
\* (records are never deleted here and a tagged flag is never reset, so
\* "each of them eventually" is "eventually all of them")
C26_LoadableEventuallyTagged ==
    <>(\A i \in DOMAIN images : i \notin badPaths => images[i].tagged)

\* C27: a worker step changes nothing but tags, description and the tagged
\* flag of records of the fetched batch: the other columns keep their values,
\* records outside the batch are untouched, no record appears or disappears,
\* and a tagged flag never goes back to false.
C27_TickChangesOnlyBatchTagging ==
    [][ /\ DOMAIN images' = DOMAIN images
        /\ \A i \in DOMAIN images :
            /\ i \notin BatchIds => images'[i] = images[i]
            /\ images'[i].rest = images[i].rest
            /\ images[i].tagged => images'[i].tagged ]_vars

C27_Witness ==
    /\ tickUpdates # {}
    /\ \E i \in tickUpdates : images[i].tagged /\ images[i].tags > 0 /\ images[i].rest = 0
    /\ \E i \in DOMAIN images \ BatchIds : images[i] = NewImage

\* ------------------------------------------------------------ retrieval claims
SortedByScore(matches) ==
    \A i, j \in 1..Len(matches) : i < j => matches[i].score >= matches[j].score

EmbedFailed(call) == generate_text_embedding(call.text, call.capability) = None

\* the threshold a call is held to: its argument, or the default 0.7 of the
\* retrieval contract where the function takes none
ContractThreshold(call) ==
    IF call.op = "search_audio_by_similarity" THEN call.threshold ELSE DefaultThreshold

\* C7 (as claimed): whatever the query, threshold and limit, the ranked result
\* of the audio search and of the image search is sorted non-increasing by
\* score and holds no score below the threshold.
C7_SortedAndAboveThreshold ==
    found.op \in {"search_audio_by_similarity", "search_similar_audio_embeddings"} =>
        /\ SortedByScore(found.matches)
        /\ \A k \in 1..Len(found.matches) :
              found.matches[k].score >= ContractThreshold(found)

\* C7 (amended): search_audio_by_similarity returns a list sorted
\* non-increasing by score whose scores are all >= threshold, so nothing for a
\* threshold above 1.0; search_similar_audio_embeddings returns a list sorted
\* non-increasing by score too, but with no threshold: the best `limit` joined
\* images whatever their scores.
C7_AudioSearchSortedAndThresholded ==
    /\ found.op = "search_audio_by_similarity" =>
        /\ SortedByScore(found.matches)
        /\ \A k \in 1..Len(found.matches) : found.matches[k].score >= found.threshold
        /\ found.threshold > ScoreScale => found.matches = <<>>
    /\ (found.op = "search_similar_audio_embeddings" /\ ~EmbedFailed(found)) =>
        /\ SortedByScore(found.matches)
        /\ LET rows == SelectSeq(JoinedImages(media, audios),
                                 LAMBDA m : ~Falsy(audios[media[m].audio_id].embedding))
           IN  Len(found.matches) = IF Len(rows) < found.limit THEN Len(rows)
                                    ELSE found.limit

C7_Witness ==
    /\ found.op = "search_audio_by_similarity"
    /\ found.threshold = DefaultThreshold
    /\ Len(found.matches) = 2
    /\ found.matches[1].id > found.matches[2].id
    /\ found.matches[1].score > found.matches[2].score

\* C8 (as claimed): when the query cannot be embedded, a retrieval call
\* returns nothing and raises nothing.
C8_EmbedFailureReturnsEmpty ==
    (/\ found.op \in {"search_audio_by_similarity", "get_images_by_audio"}
     /\ EmbedFailed(found))
    => (found.matches = <<>> /\ found.ids = <<>> /\ ~found.raised)

\* C8 (amended): when the query cannot be embedded, search_audio_by_similarity
\* (and get_images_by_audio_similarity, search_similar_audio_embeddings)
\* returns nothing and raises nothing, while get_images_by_audio returns the
\* `limit` most recent images instead.
C8_EmbedFailureEmptyOrRecent ==
    EmbedFailed(found) =>
        /\ found.op \in {"search_audio_by_similarity", "search_similar_audio_embeddings",
                         "get_images_by_audio_similarity"}
              => (found.matches = <<>> /\ found.ids = <<>> /\ ~found.raised)
        /\ found.op = "get_images_by_audio"
              => (found.ids = RecentImages(media, found.limit) /\ ~found.raised)

C8_Witness ==
    /\ found.op = "get_images_by_audio"
    /\ EmbedFailed(found)
    /\ found.text = "q"
    /\ ~found.raised
    /\ Len(found.ids) = 2
    /\ found.ids[1] > found.ids[2]

\* C9: every image or video whose audio reference is an audio record retained
\* by the ranking is in the resolved result, and the resolved result is in
\* descending order of the scores its records are paired with.
C9_AllLinkedMediaInScoreOrder ==
    found.op = "get_images_by_audio_similarity" =>
        LET retained == search_audio_by_similarity(audios, found.text, found.capability,
                                                   found.threshold, found.limit)
            ScoreOf(m) == LET k == CHOOSE k \in 1..Len(retained) :
                                       retained[k].id = media[m].audio_id
                          IN  retained[k].score
        IN  /\ \A k \in 1..Len(retained), m \in 1..Len(media) :
                  media[m].audio_id = retained[k].id =>
                      \E j \in 1..Len(found.ids) : found.ids[j] = m
            /\ \A i, j \in 1..Len(found.ids) :
                  i < j => ScoreOf(found.ids[i]) >= ScoreOf(found.ids[j])

\* the audio records a search keeps: rows of the candidate SELECT whose score
\* against the query reaches the threshold
KeptAudio(c) ==
    {a \in 1..Len(audios) :
        /\ \E k \in 1..Len(AudioCandidates(audios)) : AudioCandidates(audios)[k] = a
        /\ calculate_cosine_similarity(
               Vec(generate_text_embedding(c.text, c.capability)),
               Vec(audios[a].embedding)) >= c.threshold}

\* a ranks before b: higher score, or the same score and fetched earlier
RanksBefore(c, a, b) ==
    LET sa == calculate_cosine_similarity(
                  Vec(generate_text_embedding(c.text, c.capability)), Vec(audios[a].embedding))
        sb == calculate_cosine_similarity(
                  Vec(generate_text_embedding(c.text, c.capability)), Vec(audios[b].embedding))
    IN  sa > sb \/ (sa = sb /\ a < b)

\* C21: the matches of search_audio_by_similarity are the first `limit`
\* records of the kept candidates ranked by descending score, records of equal
\* score in fetch order: never more than `limit`, none missing while there is
\* room, and no record left out ranks before a record returned.
C21_FirstLimitOfStableRanking ==
    (found.op = "search_audio_by_similarity" /\ ~EmbedFailed(found)) =>
        LET r == found.matches
            kept == KeptAudio(found)
            ids == {r[k].id : k \in 1..Len(r)}
        IN  /\ Len(r) <= found.limit
            /\ Len(r) = Min(found.limit, Cardinality(kept))
            /\ Cardinality(ids) = Len(r)
            /\ ids \subseteq kept
            /\ \A k, j \in 1..Len(r) : k < j => RanksBefore(found, r[k].id, r[j].id)
            /\ \A a \in kept \ ids : \A k \in 1..Len(r) : RanksBefore(found, r[k].id, a)

C21_Witness ==
    /\ found.op = "search_audio_by_similarity"
    /\ found.limit = 1
    /\ found.threshold = DefaultThreshold
    /\ Cardinality(KeptAudio(found)) = 2
    /\ ~RanksBefore(found, 2, 1)
    /\ audios[1].embedding = audios[2].embedding
    /\ Len(found.matches) = 1
    /\ found.matches[1].id = 1

\* ------------------------------------------------------------ context claims
\* C10: within one cache generation (from construction or from a refresh to
\* the next refresh) the store is queried by at most one rebuild, whatever
\* number of prepare_context calls follow or overlap, and all calls return
\* the same digest.
C10_OneStoreQueryPerGeneration ==
    /\ storeQueries <= 1
    /\ Cardinality(returned) <= 1

\* C22: whatever the store holds, a rebuild never ends in an error: it ends
\* with the digest of its sample (at most 300 images and 200 videos) cached
\* and handed to the connection.
C22_RebuildCompletesAndCaches ==
    \A c \in 1..MaxCallers :
        /\ callers[c].cpc # "failed"
        /\ callers[c].cpc = "connected" =>
              /\ callers[c].context # None
              /\ callers[c].context[1].images <= ImageSample
              /\ callers[c].context[1].videos <= VideoSample

\* ------------------------------------------------------------ utility claims
\* a vector of zero magnitude: every component is 0
ZeroMagnitude(v) == v # <<>> /\ \A i \in 1..Len(v) : v[i] = 0

\* C11: calculate_cosine_similarity returns 0.0 and raises nothing whenever a
\* vector is absent or empty, the lengths differ, or a vector has zero
\* magnitude.
C11_NeutralScoreOnDegenerateInput ==
    lastCall.fn = "calculate_cosine_similarity" =>
        ((\/ Falsy(lastCall.a) \/ Falsy(lastCall.b)
          \/ Len(Vec(lastCall.a)) # Len(Vec(lastCall.b))
          \/ ZeroMagnitude(Vec(lastCall.a)) \/ ZeroMagnitude(Vec(lastCall.b)))
         => (lastCall.value = 0 /\ ~lastCall.raised))

C11_Witness ==
    /\ lastCall.fn = "calculate_cosine_similarity"
    /\ lastCall.a = Some(<<5, 0>>)
    /\ lastCall.b = Some(<<5>>)
    /\ lastCall.value = 0

\* C12: generate_text_embedding never raises; for an empty or whitespace-only
\* text it returns None without calling embed_content, and when embed_content
\* raises it returns None.
C12_EmbedNeverRaises ==
    lastCall.fn = "generate_text_embedding" =>
        /\ ~lastCall.raised
        /\ lastCall.text \in BlankTexts => (lastCall.value = None /\ ~lastCall.called)
        /\ ~lastCall.capability.ok => lastCall.value = None

C12_Witness ==
    /\ lastCall.fn = "generate_text_embedding"
    /\ lastCall.text = "q"
    /\ ~lastCall.capability.ok
    /\ lastCall.called
    /\ lastCall.value = None

\* C13: transcribe_audio_from_bytes never raises; it returns the transcribed
\* text when the audio is sound, the key is configured and the service
\* answers with text, and None in every other case.
C13_TranscribeTextOrNone ==
    lastCall.fn = "transcribe_audio_from_bytes" =>
        /\ ~lastCall.raised
        /\ lastCall.value =
              IF lastCall.audio = "valid" /\ lastCall.hasKey /\ lastCall.transcriber = "text"
              THEN Some("text") ELSE None

\* ------------------------------------------------------------ event loop claims
\* C15: a cancellation that reaches the worker in its sleep ends the worker in
\* that very step, and a cancelled worker does nothing more: no fetch, no
\* tagging call, no update.
C15_CancelInterruptsSleep ==
    [][/\ (cancelledAt = "none" /\ cancelledAt' # "none" /\ pc = "sleeping")
           => (pc' = "cancelled" /\ cancelledAt' = "sleeping")
       /\ pc = "cancelled" => UNCHANGED workerVars]_vars

C15_Witness ==
    /\ pc = "cancelled"
    /\ cancelledAt = "sleeping"
    /\ tickOutcome = "done"
    /\ \E i \in DOMAIN images : ~images[i].tagged

\* C18: while the worker is analysing (tagging call in flight), a waiting
\* request can be served.
C18_ServingNotBlockedByAnalysis ==
    (pc = "analyzing" /\ pending > 0 /\ cancelledAt = "none") => ENABLED Serve

\* ------------------------------------------------------------ audio store claims
\* C17: every audio record has an embedding exactly when its transcription
\* holds text (is present and not blank).
C17_EmbeddingIffTranscription ==
    \A a \in 1..Len(audios) :
        (audios[a].embedding # None) <=> HasText(audios[a].transcription)

\* C23: an update_audio call given a transcription stores it and pairs it
\* with the embedding computed from it (none when the text is blank or the
\* embedding fails), so no embedding of the previous text stays with it.
C23_UpdateReplacesTranscriptionAndEmbedding ==
    (lastCall.fn = "update_audio" /\ lastCall.transcription # None) =>
        /\ ~lastCall.raised
        /\ audios[lastCall.audio_id] =
              create_audio(lastCall.transcription, lastCall.capability)

\* ------------------------------------------------------------ refresh claims
\* C28: the cache never holds a digest whose store reads started before the
\* last refresh: a rebuild overtaken by a refresh does not install its result.
C28_OvertakenRebuildNotInstalled ==
    context_cache # None => ~cacheStale

\* C30: no chat response is produced from a context that predates the last
\* refresh, on whatever connection, opened before or after the refresh.
C30_ResponsesUseContextBuiltAfterRefresh ==
    lastResponse # None => ~lastResponse[1].stale

C25_ConcurrentCallsUseDistinctNames ==
    \A c, d \in 1..MaxCalls :
        (c # d /\ calls[c].spc = "staging" /\ calls[d].spc = "staging")
            => calls[c].filename # calls[d].filename

\* ------------------------------------------------------------ edit claims
\* C29: a record edited by a user since the tick's fetch still holds the
\* user's tags and description, and a record deleted since the fetch is
\* absent, whatever the worker has committed in between.
C29_CommitKeepsUserChanges ==
    /\ \A i \in userEdited :
        i \in DOMAIN images /\ images[i].tags = UserValue
                            /\ images[i].description = UserValue
    /\ \A i \in deletedIds : i \notin DOMAIN images

====
